---- MODULE Spec2Model ----
(***************************************************************************)
(* Model of document_analyzer_evaluator.py: the value normalizer, the cost *)
(* calculator, the accuracy scorer, the aggregators, the report builder    *)
(* and the run driver that calls them.                                     *)
(*                                                                         *)
(* Python floats are IEEE-754 binary64 numbers.  The amounts of money and  *)
(* the percentages of the program are floats, so the model computes them   *)
(* with correctly rounded binary64 arithmetic (round half to even) on      *)
(* arbitrary-precision naturals kept as little-endian sequences of limbs.  *)
(* Only non-negative finite values occur; exponents stay far from the      *)
(* subnormal and overflow ranges.                                          *)
(***************************************************************************)
EXTENDS Integers, Sequences, FiniteSets, TLC

(***************************************************************************)
(* Arbitrary-precision naturals: <<>> is 0, a[1] the least significant     *)
(* limb, no leading zero limb.                                             *)
(***************************************************************************)
LimbBits == 2 * 7
LimbBase == 2 ^ LimbBits
HalfLimb == 2 ^ 7

Min(a, b) == IF a <= b THEN a ELSE b
Max(a, b) == IF a >= b THEN a ELSE b

Limb(a, i) == IF i >= 1 /\ i <= Len(a) THEN a[i] ELSE 0

RECURSIVE BNorm(_)
BNorm(a) ==
    IF Len(a) = 0 THEN <<>>
    ELSE IF a[Len(a)] = 0 THEN BNorm(SubSeq(a, 1, Len(a) - 1))
    ELSE a

RECURSIVE BFromInt(_)
BFromInt(n) ==
    IF n = 0 THEN <<>> ELSE <<(n % LimbBase)>> \o BFromInt(n \div LimbBase)

RECURSIVE BToInt(_)
BToInt(a) ==
    IF a = <<>> THEN 0 ELSE Head(a) + (LimbBase * BToInt(Tail(a)))

\* the number whose limbs, before carrying, are cols[i..] plus the carry c
RECURSIVE Carry(_, _, _)
Carry(cols, i, c) ==
    IF i > Len(cols) THEN BFromInt(c)
    ELSE <<(cols[i] + c) % LimbBase>> \o Carry(cols, i + 1, (cols[i] + c) \div LimbBase)

BAdd(a, b) ==
    Carry([i \in 1..Max(Len(a), Len(b)) |-> Limb(a, i) + Limb(b, i)], 1, 0)

\* a - b for a >= b
RECURSIVE BSubC(_, _, _, _)
BSubC(a, b, i, c) ==
    IF i > Len(a) THEN <<>>
    ELSE LET x == a[i] - Limb(b, i) - c
         IN  <<x % LimbBase>> \o BSubC(a, b, i + 1, IF x < 0 THEN 1 ELSE 0)

BSub(a, b) == BNorm(BSubC(a, b, 1, 0))

\* a < b for sequences of the same length, comparing from limb i down
RECURSIVE BLessFrom(_, _, _)
BLessFrom(a, b, i) ==
    IF i = 0 THEN FALSE
    ELSE IF a[i] # b[i] THEN a[i] < b[i]
    ELSE BLessFrom(a, b, i - 1)

\* a < b, both normalised
BLess(a, b) == IF Len(a) # Len(b) THEN Len(a) < Len(b) ELSE BLessFrom(a, b, Len(a))

\* a * k for a small k (k <= 2^16)
BMulSmall(a, k) == BNorm(Carry([i \in 1..Len(a) |-> a[i] * k], 1, 0))

\* a * b for a and b of at most four limbs each
BMul(a, b) ==
    IF Len(a) = 0 \/ Len(b) = 0 THEN <<>>
    ELSE BNorm(Carry([k \in 1..(Len(a) + Len(b) - 1) |->
                        (Limb(a, 1) * Limb(b, k)) + (Limb(a, 2) * Limb(b, k - 1))
                        + (Limb(a, 3) * Limb(b, k - 2)) + (Limb(a, 4) * Limb(b, k - 3))],
                     1, 0))

\* quotient and remainder of a by a small d (0 < d < 2^23), from limb i down,
\* each limb in two halves so that no intermediate value exceeds 2^31
RECURSIVE BDivSmallR(_, _, _, _)
BDivSmallR(a, d, i, r) ==
    IF i = 0 THEN [q |-> <<>>, r |-> r]
    ELSE LET c1 == (r * HalfLimb) + (a[i] \div HalfLimb)
             c2 == ((c1 % d) * HalfLimb) + (a[i] % HalfLimb)
             lo == BDivSmallR(a, d, i - 1, c2 % d)
         IN  [q |-> Append(lo.q, ((c1 \div d) * HalfLimb) + (c2 \div d)), r |-> lo.r]

BDivSmall(a, d) ==
    LET x == BDivSmallR(a, d, Len(a), 0) IN [q |-> BNorm(x.q), r |-> x.r]

BShl(a, k) ==
    LET w == k \div LimbBits
        r == k % LimbBits
    IN  IF Len(a) = 0 THEN <<>>
        ELSE BNorm([i \in 1..(Len(a) + w + 1) |->
                      ((Limb(a, i - w) % (2 ^ (LimbBits - r))) * (2 ^ r))
                      + (Limb(a, i - w - 1) \div (2 ^ (LimbBits - r)))])

BShr(a, k) ==
    LET w == k \div LimbBits
        r == k % LimbBits
    IN  IF w >= Len(a) THEN <<>>
        ELSE BNorm([i \in 1..(Len(a) - w) |->
                      (Limb(a, i + w) \div (2 ^ r))
                      + ((Limb(a, i + w + 1) % (2 ^ r)) * (2 ^ (LimbBits - r)))])

RECURSIVE BitLenSmall(_)
BitLenSmall(n) == IF n = 0 THEN 0 ELSE 1 + BitLenSmall(n \div 2)

BBitLen(a) ==
    IF Len(a) = 0 THEN 0 ELSE (LimbBits * (Len(a) - 1)) + BitLenSmall(a[Len(a)])

\* bit k of a (bit 0 is the least significant)
BBit(a, k) == ((Limb(a, (k \div LimbBits) + 1) \div (2 ^ (k % LimbBits))) % 2) = 1

BOdd(a) == BBit(a, 0)

\* some bit of a below position k is set
BLowNonzero(a, k) ==
    \E i \in 1..Len(a) :
        \/ i <= (k \div LimbBits) /\ a[i] # 0
        \/ i = (k \div LimbBits) + 1 /\ (a[i] % (2 ^ (k % LimbBits))) # 0

\* floor(a / b) and the remainder for b > 0 and a < b * 2^n, bit by bit
RECURSIVE BDivBits(_, _, _)
BDivBits(a, b, n) ==
    IF n = 0 THEN [q |-> 0, r |-> a]
    ELSE LET d  == BShl(b, n - 1)
             ge == ~BLess(a, d)
             lo == BDivBits(IF ge THEN BSub(a, d) ELSE a, b, n - 1)
         IN  [q |-> (IF ge THEN 2 ^ (n - 1) ELSE 0) + lo.q, r |-> lo.r]

\* floor(a / b) and the remainder for b > 0 and a < b * LimbBase^n, one
\* limb of the quotient at a time
RECURSIVE BDivLimbs(_, _, _)
BDivLimbs(a, b, n) ==
    IF n = 0 THEN [q |-> <<>>, r |-> a]
    ELSE LET hi == BDivBits(a, BShl(b, LimbBits * (n - 1)), LimbBits)
             lo == BDivLimbs(hi.r, b, n - 1)
         IN  [q |-> Append(lo.q, hi.q), r |-> lo.r]

BDiv(a, b, n) ==
    LET x == BDivLimbs(a, b, n) IN [q |-> BNorm(x.q), r |-> x.r]

(***************************************************************************)
(* binary64 values >= 0: [m, e] stands for m * 2^e with m of exactly       *)
(* Precision bits, or m = <<>> for zero.  The form is canonical, so two    *)
(* floats are equal exactly when their records are.                        *)
(***************************************************************************)
Precision == 53

FZero == [m |-> <<>>, e |-> 0]

\* n * 2^e (plus a non-zero amount below n's last bit when sticky) rounded
\* to the nearest float, ties to even
FRound(n, e, sticky) ==
    LET len == BBitLen(n)
    IN  IF n = <<>> THEN FZero
        ELSE IF len <= Precision
        THEN [m |-> BShl(n, Precision - len), e |-> e - (Precision - len)]
        ELSE LET s    == len - Precision
                 q    == BShr(n, s)
                 half == BBit(n, s - 1)
                 rest == sticky \/ BLowNonzero(n, s - 1)
                 up   == half /\ (rest \/ BOdd(q))
                 q1   == IF up THEN BAdd(q, <<1>>) ELSE q
             IN  IF BBitLen(q1) > Precision
                 THEN [m |-> BShr(q1, 1), e |-> e + s + 1]
                 ELSE [m |-> q1, e |-> e + s]

\* float(n) for an int n >= 0
FFromInt(n) == FRound(BFromInt(n), 0, FALSE)

\* a / b for ints a >= 0, 0 < b < 2^23: Python's true division, correctly
\* rounded.
\* A decimal literal d.dd of the source is the float nearest to it, which is
\* FDivInt of its digits by the power of ten.
FDivInt(a, b) ==
    LET k  == Precision + 2 + BitLenSmall(b)
        qr == BDivSmall(BShl(BFromInt(a), k), b)
    IN  FRound(qr.q, 0 - k, qr.r # 0)

FMul(x, y) ==
    IF x.m = <<>> \/ y.m = <<>> THEN FZero
    ELSE FRound(BMul(x.m, y.m), x.e + y.e, FALSE)

FAdd(x, y) ==
    IF x.m = <<>> THEN y
    ELSE IF y.m = <<>> THEN x
    ELSE LET e == Min(x.e, y.e)
         IN  FRound(BAdd(BShl(x.m, x.e - e), BShl(y.m, y.e - e)), e, FALSE)

\* x / y for floats, y > 0
FDiv(x, y) ==
    IF x.m = <<>> THEN FZero
    ELSE LET k  == Precision + 2
             qr == BDiv(BShl(x.m, k), y.m, ((k + 1) \div LimbBits) + 1)
         IN  FRound(qr.q, x.e - y.e - k, qr.r # <<>>)

FLess(x, y) ==
    IF y.m = <<>> THEN FALSE
    ELSE IF x.m = <<>> THEN TRUE
    ELSE IF x.e # y.e THEN x.e < y.e
    ELSE BLess(x.m, y.m)

\* the integer nearest to x * 10^digits, ties to even, for x >= 0
FScaledInt(x, pow10) ==
    IF x.m = <<>> THEN 0
    ELSE LET n == BMulSmall(x.m, pow10)
         IN  IF x.e >= 0 THEN BToInt(BShl(n, x.e))
             ELSE LET s    == 0 - x.e
                      q    == BShr(n, s)
                      half == BBit(n, s - 1)
                      rest == BLowNonzero(n, s - 1)
                  IN  BToInt(IF half /\ (rest \/ BOdd(q)) THEN BAdd(q, <<1>>) ELSE q)

\* round(x, 2): the decimal with two places nearest to the exact value of
\* x, ties to even, as a float
PyRound2(x) == FDivInt(FScaledInt(x, 100), 100)

(***************************************************************************)
(* Python values.  A str is a sequence of characters; a dict is the        *)
(* sequence of its <<key, value>> pairs in insertion order, keys distinct; *)
(* JSON data (usage records, typed values, ground truth) are such values.  *)
(***************************************************************************)
PyNone     == [t |-> "NoneType"]
PyStr(s)   == [t |-> "str", s |-> s]
PyInt(n)   == [t |-> "int", n |-> n]
PyBool(b)  == [t |-> "bool", b |-> b]
PyList(l)  == [t |-> "list", l |-> l]
PyDict(d)  == [t |-> "dict", d |-> d]

\* d.get(k, default)
PyGet(d, k, default) ==
    IF \E i \in 1..Len(d.d) : d.d[i][1] = k
    THEN d.d[CHOOSE i \in 1..Len(d.d) : d.d[i][1] = k][2]
    ELSE default

PyKeys(d) == [i \in 1..Len(d.d) |-> d.d[i][1]]
PyHas(d, k) == \E i \in 1..Len(d.d) : d.d[i][1] = k

UpperCase == <<"A", "B", "C", "D", "E", "F", "G", "H", "I", "J", "K", "L", "M",
               "N", "O", "P", "Q", "R", "S", "T", "U", "V", "W", "X", "Y", "Z">>
LowerCase == <<"a", "b", "c", "d", "e", "f", "g", "h", "i", "j", "k", "l", "m",
               "n", "o", "p", "q", "r", "s", "t", "u", "v", "w", "x", "y", "z">>

\* str.lower(), on ASCII text
LowerChar(c) ==
    IF \E i \in 1..Len(UpperCase) : UpperCase[i] = c
    THEN LowerCase[CHOOSE i \in 1..Len(UpperCase) : UpperCase[i] = c]
    ELSE c
Lower(s) == [i \in 1..Len(s) |-> LowerChar(s[i])]

K_documentPages == <<"d", "o", "c", "u", "m", "e", "n", "t", "P", "a", "g", "e", "s">>
K_tokens == <<"t", "o", "k", "e", "n", "s">>
K_input == <<"i", "n", "p", "u", "t">>
K_output == <<"o", "u", "t", "p", "u", "t">>
K_contextualization == <<"c", "o", "n", "t", "e", "x", "t", "u", "a", "l", "i", "z", "a", "t", "i", "o", "n">>

(***************************************************************************)
(* str(), str.strip() and truth of Python values.  The text of the model   *)
(* is ASCII without quotes, backslashes or control characters, for which   *)
(* repr() of a str is the str between single quotes.                       *)
(***************************************************************************)
Whitespace == {" ", "\t", "\n", "\r", "\f"}

Strip(s) ==
    LET keep == {i \in 1..Len(s) : s[i] \notin Whitespace}
    IN  IF keep = {} THEN <<>>
        ELSE SubSeq(s, CHOOSE i \in keep : \A j \in keep : i <= j,
                       CHOOSE i \in keep : \A j \in keep : i >= j)

Digits == <<"0", "1", "2", "3", "4", "5", "6", "7", "8", "9">>

RECURSIVE NatStr(_)
NatStr(n) ==
    IF n < 10 THEN <<Digits[n + 1]>> ELSE NatStr(n \div 10) \o <<Digits[(n % 10) + 1]>>

IntStr(n) == IF n < 0 THEN <<"-">> \o NatStr(0 - n) ELSE NatStr(n)

RECURSIVE Join(_, _)
Join(parts, sep) ==
    IF Len(parts) = 0 THEN <<>>
    ELSE IF Len(parts) = 1 THEN parts[1]
    ELSE parts[1] \o sep \o Join(Tail(parts), sep)

RECURSIVE Repr(_)
Repr(v) ==
    CASE v.t = "NoneType" -> <<"N", "o", "n", "e">>
      [] v.t = "str"  -> <<"'">> \o v.s \o <<"'">>
      [] v.t = "int"  -> IntStr(v.n)
      [] v.t = "bool" -> IF v.b THEN <<"T", "r", "u", "e">> ELSE <<"F", "a", "l", "s", "e">>
      [] v.t = "list" ->
            <<"[">> \o Join([i \in 1..Len(v.l) |-> Repr(v.l[i])], <<",", " ">>) \o <<"]">>
      [] v.t = "dict" ->
            <<"{">>
            \o Join([i \in 1..Len(v.d) |->
                       <<"'">> \o v.d[i][1] \o <<"'", ":", " ">> \o Repr(v.d[i][2])],
                    <<",", " ">>)
            \o <<"}">>

\* str(v)
Str(v) == IF v.t = "str" THEN v.s ELSE Repr(v)

\* bool(v)
Truthy(v) ==
    CASE v.t = "NoneType" -> FALSE
      [] v.t = "str"  -> Len(v.s) > 0
      [] v.t = "int"  -> v.n # 0
      [] v.t = "bool" -> v.b
      [] v.t = "list" -> Len(v.l) > 0
      [] v.t = "dict" -> Len(v.d) > 0

EndsWith(s, suffix) ==
    Len(s) >= Len(suffix) /\ SubSeq(s, Len(s) - Len(suffix) + 1, Len(s)) = suffix

K_type == <<"t", "y", "p", "e">>
K_valueString == <<"v", "a", "l", "u", "e", "S", "t", "r", "i", "n", "g">>
K_valueNumber == <<"v", "a", "l", "u", "e", "N", "u", "m", "b", "e", "r">>
K_valueDate == <<"v", "a", "l", "u", "e", "D", "a", "t", "e">>
K_valueBoolean == <<"v", "a", "l", "u", "e", "B", "o", "o", "l", "e", "a", "n">>
K_valueInteger == <<"v", "a", "l", "u", "e", "I", "n", "t", "e", "g", "e", "r">>
K_valueTime == <<"v", "a", "l", "u", "e", "T", "i", "m", "e">>
K_valueArray == <<"v", "a", "l", "u", "e", "A", "r", "r", "a", "y">>
K_valueObject == <<"v", "a", "l", "u", "e", "O", "b", "j", "e", "c", "t">>
K_result == <<"r", "e", "s", "u", "l", "t">>
K_contents == <<"c", "o", "n", "t", "e", "n", "t", "s">>
K_fields == <<"f", "i", "e", "l", "d", "s">>
K_usage == <<"u", "s", "a", "g", "e">>

T_string == PyStr(<<"s", "t", "r", "i", "n", "g">>)
T_number == PyStr(<<"n", "u", "m", "b", "e", "r">>)
T_date == PyStr(<<"d", "a", "t", "e">>)
T_boolean == PyStr(<<"b", "o", "o", "l", "e", "a", "n">>)
T_integer == PyStr(<<"i", "n", "t", "e", "g", "e", "r">>)
T_time == PyStr(<<"t", "i", "m", "e">>)
T_array == PyStr(<<"a", "r", "r", "a", "y">>)
T_object == PyStr(<<"o", "b", "j", "e", "c", "t">>)

(***************************************************************************)
(* Value normalizer                                                        *)
(***************************************************************************)
\* an exception propagating out of a call
Raised(exc) == [t |-> "raise", exc |-> exc]
IsRaised(v) == v.t = "raise"

\* the first exception among the values, or the values
FirstRaised(values) ==
    IF \E i \in 1..Len(values) : IsRaised(values[i])
    THEN values[CHOOSE i \in 1..Len(values) :
                    IsRaised(values[i]) /\ \A j \in 1..(i - 1) : ~IsRaised(values[j])]
    ELSE PyNone

\* what "for item in arr" iterates over, or the TypeError it raises
Iterate(arr) ==
    CASE arr.t = "list" -> arr.l
      [] arr.t = "str"  -> [i \in 1..Len(arr.s) |-> PyStr(<<arr.s[i]>>)]
      [] arr.t = "dict" -> [i \in 1..Len(arr.d) |-> PyStr(arr.d[i][1])]
      [] OTHER -> Raised("TypeError")

\* details[key]: a KeyError when the payload is missing
GetPayloadRequired(details, key) ==
    IF PyHas(details, key) THEN PyGet(details, key, PyNone) ELSE Raised("KeyError")

\* details.get(key)
GetPayload(details, key) == PyGet(details, key, PyNone)

RECURSIVE extract_actual_value(_)
extract_actual_value(details) ==
    IF details.t # "dict" THEN details
    ELSE LET typ == PyGet(details, K_type, PyNone)
         IN  CASE typ = T_string  -> GetPayload(details, K_valueString)
               [] typ = T_number  -> GetPayload(details, K_valueNumber)
               [] typ = T_date    -> GetPayload(details, K_valueDate)
               [] typ = T_boolean -> GetPayload(details, K_valueBoolean)
               [] typ = T_integer -> GetPayload(details, K_valueInteger)
               [] typ = T_time ->
                     LET v == GetPayload(details, K_valueTime)
                     IN  IF IsRaised(v) \/ ~Truthy(v) THEN v
                         ELSE IF v.t # "str" THEN Raised("AttributeError")
                         ELSE IF EndsWith(v.s, <<":", "0", "0">>)
                         THEN PyStr(SubSeq(v.s, 1, Len(v.s) - 3))
                         ELSE v
               [] typ = T_array ->
                     LET arr   == PyGet(details, K_valueArray, PyList(<<>>))
                         items == Iterate(arr)
                     IN  IF arr.t \notin {"list", "str", "dict"} THEN items
                         ELSE LET extracted ==
                                      [i \in 1..Len(items) |-> extract_actual_value(items[i])]
                              IN  IF IsRaised(FirstRaised(extracted))
                                  THEN FirstRaised(extracted)
                                  ELSE PyList(extracted)
               [] typ = T_object ->
                     LET obj == PyGet(details, K_valueObject, PyDict(<<>>))
                     IN  IF obj.t # "dict" THEN Raised("AttributeError")
                         ELSE LET values ==
                                      [i \in 1..Len(obj.d) |-> extract_actual_value(obj.d[i][2])]
                              IN  IF IsRaised(FirstRaised(values))
                                  THEN FirstRaised(values)
                                  ELSE PyDict([i \in 1..Len(obj.d) |->
                                                 <<obj.d[i][1], values[i]>>])
               [] OTHER -> PyNone

(***************************************************************************)
(* Pricing                                                                 *)
(***************************************************************************)
PagesPerUnit  == 1000
TokensPerUnit == 1000000

\* The float literals of calculate_document_cost
RatePages       == FFromInt(5)
RateInStandard  == FDivInt(275, 100)
RateOutStandard == FFromInt(11)
RateCtxStandard == FFromInt(1)
RateInPro       == FDivInt(121, 100)
RateOutPro      == FDivInt(484, 100)
RateCtxPro      == FDivInt(150, 100)

\* a comparison of the mode that forgets to lower-case it
IsProCaseSensitive(mode) == mode = <<"p", "r", "o">>

IsPro(mode) == Lower(mode) = <<"p", "r", "o">>

calculate_document_cost(usage, mode) ==
    LET document_pages == PyGet(usage, K_documentPages, PyInt(0)).n
        tokens == PyGet(usage, K_tokens, PyDict(<<>>))
        input_tokens  == PyGet(tokens, K_input, PyInt(0)).n
        output_tokens == PyGet(tokens, K_output, PyInt(0)).n
        contextualization_tokens == PyGet(tokens, K_contextualization, PyInt(0)).n
        content == FMul(FDivInt(document_pages, PagesPerUnit), RatePages)
        field ==
            IF IsPro(mode)
            THEN FAdd(FMul(FDivInt(input_tokens, TokensPerUnit), RateInPro),
                      FMul(FDivInt(output_tokens, TokensPerUnit), RateOutPro))
            ELSE FAdd(FMul(FDivInt(input_tokens, TokensPerUnit), RateInStandard),
                      FMul(FDivInt(output_tokens, TokensPerUnit), RateOutStandard))
        ctx ==
            IF IsPro(mode)
            THEN FMul(FDivInt(contextualization_tokens, TokensPerUnit), RateCtxPro)
            ELSE FMul(FDivInt(contextualization_tokens, TokensPerUnit), RateCtxStandard)
    IN  [content_extraction |-> content,
         field_extraction   |-> field,
         contextualization  |-> ctx,
         total              |-> FAdd(FAdd(content, field), ctx)]

ZeroCost ==
    [content_extraction |-> FZero, field_extraction |-> FZero,
     contextualization |-> FZero, total |-> FZero]

\* totals[key] += cost[key] for each key, for each cost in order
RECURSIVE AccumulateCosts(_, _)
AccumulateCosts(totals, document_costs) ==
    IF document_costs = <<>> THEN totals
    ELSE LET cost == Head(document_costs)
         IN  AccumulateCosts(
                 [content_extraction |-> FAdd(totals.content_extraction, cost.content_extraction),
                  field_extraction   |-> FAdd(totals.field_extraction, cost.field_extraction),
                  contextualization  |-> FAdd(totals.contextualization, cost.contextualization),
                  total              |-> FAdd(totals.total, cost.total)],
                 Tail(document_costs))

aggregate_costs(document_costs) == AccumulateCosts(ZeroCost, document_costs)

(***************************************************************************)
(* Accuracy scorer and field aggregation.  The status marks of the source  *)
(* are written "pass" and "fail".                                          *)
(***************************************************************************)
Hundred == FFromInt(100)

\* round((success / total) * 100, 2) if total else 0
Accuracy(success, total) ==
    IF total # 0 THEN PyRound2(FMul(FDivInt(success, total), Hundred)) ELSE FZero

\* str(expected).lower() == str(actual).lower()
MatchesUntrimmed(expected, actual) ==
    Lower(Str(expected)) = Lower(Str(actual))

\* str(expected).strip().lower() == str(actual).strip().lower()
Matches(expected, actual) ==
    Lower(Strip(Str(expected))) = Lower(Strip(Str(actual)))

FieldScore(expected, actual) ==
    [status |-> IF Matches(expected, actual) THEN "pass" ELSE "fail",
     expected |-> expected, actual |-> actual]

\* result["result"]["contents"][0].get("fields", {})
ExtractedFields(result) ==
    PyGet(PyGet(PyGet(result, K_result, PyNone), K_contents, PyNone).l[1],
          K_fields, PyDict(<<>>))

NumPasses(field_scores) ==
    Cardinality({i \in 1..Len(field_scores) : field_scores[i][2].status = "pass"})

\* the accuracy and the score sheet (the <<field, FieldScore>> pairs in the
\* order of the extracted fields), or the exception of the normalizer
ScoreFields(extracted_fields, testdata) ==
    LET actuals == [i \in 1..Len(extracted_fields) |->
                      extract_actual_value(extracted_fields[i][2])]
        field_scores ==
            [i \in 1..Len(extracted_fields) |->
                <<extracted_fields[i][1],
                  FieldScore(PyGet(testdata, extracted_fields[i][1], PyNone), actuals[i])>>]
    IN  IF IsRaised(FirstRaised(actuals)) THEN FirstRaised(actuals)
        ELSE [t |-> "scored",
              accuracy |-> Accuracy(NumPasses(field_scores), Len(field_scores)),
              field_scores |-> field_scores]

\* the loop running over the ground truth: for field in testdata
compare_enumerating_testdata(result, testdata) ==
    ScoreFields([i \in 1..Len(testdata.d) |->
                    <<testdata.d[i][1],
                      PyGet(ExtractedFields(result), testdata.d[i][1], PyNone)>>],
                testdata)

compare_results_to_testdata(result, testdata) ==
    ScoreFields(ExtractedFields(result).d, testdata)

\* agg[field] = {"passes": 0, "fails": 0} and the increment: the counts of
\* the earlier sheets are lost
CountFieldAfresh(agg, field, status) ==
    LET known == \E i \in 1..Len(agg) : agg[i][1] = field
        base  == IF known THEN agg ELSE Append(agg, <<field, [passes |-> 0, fails |-> 0]>>)
    IN  [i \in 1..Len(base) |->
            IF base[i][1] # field THEN base[i]
            ELSE IF status = "pass"
            THEN <<field, [passes |-> 1, fails |-> 0]>>
            ELSE <<field, [passes |-> 0, fails |-> 1]>>]

\* agg.setdefault(field, {"passes": 0, "fails": 0}) and the increment
CountField(agg, field, status) ==
    LET known == \E i \in 1..Len(agg) : agg[i][1] = field
        base  == IF known THEN agg ELSE Append(agg, <<field, [passes |-> 0, fails |-> 0]>>)
    IN  [i \in 1..Len(base) |->
            IF base[i][1] # field THEN base[i]
            ELSE IF status = "pass"
            THEN <<field, [passes |-> base[i][2].passes + 1, fails |-> base[i][2].fails]>>
            ELSE <<field, [passes |-> base[i][2].passes, fails |-> base[i][2].fails + 1]>>]

RECURSIVE CountFields(_, _, _)
CountFields(agg, fields, i) ==
    IF i > Len(fields) THEN agg
    ELSE CountFields(CountField(agg, fields[i][1], fields[i][2].status), fields, i + 1)

RECURSIVE CountSheets(_, _, _)
CountSheets(agg, results, i) ==
    IF i > Len(results) THEN agg
    ELSE CountSheets(CountFields(agg, results[i].fields, 1), results, i + 1)

\* the <<field, [passes, fails]>> pairs in the order the fields first occur
aggregate_field_performance(results) == CountSheets(<<>>, results, 1)

(***************************************************************************)
(* State of a run                                                          *)
(***************************************************************************)
VARIABLES
    pc,              \* where the run driver (or the function under study) stands
    MODE,            \* the configured pricing mode
    input_files,     \* the documents of the run, in input order
    polls,           \* polls made so far for the document being analysed
    result,          \* analysis result of the document being processed
    usage_data,      \* its usage record
    document_cost,   \* its CostBreakdown
    test_data,       \* its ground truth, NoTestFile without a test file
    scored,          \* what compare_results_to_testdata returned for it
    all_costs,       \* cost entries, one per analysed document
    all_results,     \* score sheets, one per document with ground truth
    field_performance, \* aggregate_field_performance over all_results
    aggregate_cost,  \* aggregate_costs over all_costs, once computed
    report,          \* the evaluation report, once generated
    run_files,       \* names of the files written to the run folder
    run_folder,      \* "created" once the run folder exists, "none" before
    details,         \* normalizer: the value given to extract_actual_value
    actual,          \* normalizer: what it returned
    again,           \* normalizer: what it returned for that result
    success,         \* scoring loop: fields that matched so far
    total,           \* scoring loop: fields scored so far
    accuracy         \* scoring loop: the accuracy returned

costVars  == <<MODE, usage_data, document_cost, all_costs, aggregate_cost>>
scoreVars == <<result, test_data, scored>>
runVars   == <<input_files, polls, all_results, field_performance, report, run_files,
               run_folder>>
normVars  == <<details, actual, again>>
loopVars  == <<success, total, accuracy>>
vars == <<pc, costVars, scoreVars, runVars, normVars, loopVars>>

NotYet == [t |-> "unset"]
NoTestFile == [t |-> "nofile"]

\* the values of the variables a specification does not use
IdleScore == result = NotYet /\ test_data = NotYet /\ scored = NotYet
IdleRun ==
    /\ input_files = <<>>
    /\ polls = 0
    /\ all_results = <<>>
    /\ field_performance = NotYet
    /\ report = NotYet
    /\ run_files = {}
    /\ run_folder = "none"
IdleNorm == details = NotYet /\ actual = NotYet /\ again = NotYet
IdleLoop == success = 0 /\ total = 0 /\ accuracy = NotYet
IdleCost ==
    /\ MODE = <<>>
    /\ usage_data = NotYet
    /\ document_cost = NotYet
    /\ all_costs = <<>>
    /\ aggregate_cost = NotYet

(***************************************************************************)
(* Inputs                                                                  *)
(***************************************************************************)
MaxDocs == 3

Million == 1000 * 1000

Modes ==
    {<<"s", "t", "a", "n", "d", "a", "r", "d">>, <<"p", "r", "o">>, <<"P", "R", "O">>, <<"P", "r", "o">>, <<"p", "r", "o", "d">>, <<>>}

Usages ==
    { PyDict(<<>>),
      PyDict(<<<<K_documentPages, PyInt(2000)>>,
               <<K_tokens, PyDict(<<<<K_input, PyInt(Million)>>,
                                    <<K_output, PyInt(Million)>>,
                                    <<K_contextualization, PyInt(Million)>>>>)>>>>),
      PyDict(<<<<K_tokens, PyDict(<<<<K_input, PyInt(1)>>>>)>>>>),
      PyDict(<<<<K_documentPages, PyInt(1)>>,
               <<K_tokens, PyDict(<<<<K_input, PyInt(2)>>>>)>>>>),
      PyDict(<<<<K_documentPages, PyInt(1)>>>>),
      PyDict(<<<<K_documentPages, PyInt(4)>>, <<K_tokens, PyDict(<<>>)>>>>),
      PyDict(<<<<K_documentPages, PyInt(3)>>,
               <<K_tokens, PyDict(<<<<K_output, PyInt(7)>>,
                                    <<K_contextualization, PyInt(5)>>>>)>>>>),
      PyDict(<<<<K_documentPages, PyInt(0)>>,
               <<K_tokens, PyDict(<<<<K_input, PyInt(0)>>,
                                    <<K_contextualization, PyInt(250000)>>>>)>>>>) }

DocNames == <<"doc1", "doc2", "doc3", "doc4", "doc5">>

(***************************************************************************)
(* The costing of a run on its own: each analysed document is costed and   *)
(* its entry appended; after the last one the entries are aggregated.      *)
(***************************************************************************)
CostEntry(n, usage, mode) ==
    [document |-> DocNames[n], usage |-> usage,
     costs |-> calculate_document_cost(usage, mode)]

CostsOf(entries) == [i \in 1..Len(entries) |-> entries[i].costs]

InitCost ==
    /\ pc = "costing"
    /\ MODE \in Modes
    /\ usage_data = NotYet
    /\ document_cost = NotYet
    /\ all_costs = <<>>
    /\ aggregate_cost = NotYet
    /\ IdleScore /\ IdleRun /\ IdleNorm /\ IdleLoop

CostDocument ==
    /\ pc = "costing"
    /\ Len(all_costs) < MaxDocs
    /\ \E usage \in Usages :
         LET entry == CostEntry(Len(all_costs) + 1, usage, MODE)
         IN  /\ usage_data' = usage
             /\ document_cost' = entry.costs
             /\ all_costs' = Append(all_costs, entry)
    /\ UNCHANGED <<pc, MODE, aggregate_cost, scoreVars, runVars, normVars, loopVars>>

AggregateCosts ==
    /\ pc = "costing"
    /\ pc' = "aggregated"
    /\ aggregate_cost' = aggregate_costs(CostsOf(all_costs))
    /\ UNCHANGED <<MODE, usage_data, document_cost, all_costs>>
    /\ UNCHANGED <<scoreVars, runVars, normVars, loopVars>>

NextCost == CostDocument \/ AggregateCosts

SpecCost == InitCost /\ [][NextCost]_vars

(***************************************************************************)
(* Claims about the cost calculator and the cost aggregation               *)
(***************************************************************************)
\* the quantity a usage record holds under a key, a missing one counting as 0
Quantity(record, key) ==
    IF record.t = "dict" /\ PyHas(record, key)
    THEN (CHOOSE kv \in {record.d[i] : i \in 1..Len(record.d)} : kv[1] = key)[2].n
    ELSE 0

TokenQuantity(usage, key) ==
    IF PyHas(usage, K_tokens)
    THEN Quantity((CHOOSE kv \in {usage.d[i] : i \in 1..Len(usage.d)} : kv[1] = K_tokens)[2], key)
    ELSE 0

\* the spellings of "pro" in any mix of cases
SpelledPro(mode) ==
    /\ Len(mode) = 3
    /\ mode[1] \in {"p", "P"}
    /\ mode[2] \in {"r", "R"}
    /\ mode[3] \in {"o", "O"}

Dollars(cents) == FDivInt(cents, 100)

FullUsage(usage) ==
    /\ Quantity(usage, K_documentPages) = 2000
    /\ TokenQuantity(usage, K_input) = Million
    /\ TokenQuantity(usage, K_output) = Million
    /\ TokenQuantity(usage, K_contextualization) = Million

\* C1: the cost of a document is pages/1000 x 5.00 for content extraction
\* whatever the mode, input/1e6 x 2.75 + output/1e6 x 11.00 and ctx/1e6 x 1.00
\* under standard rates, input/1e6 x 1.21 + output/1e6 x 4.84 and
\* ctx/1e6 x 1.50 under pro rates; a missing quantity counts as 0; pro rates
\* apply exactly when the mode is "pro" in any mix of cases; 2000 pages and
\* 1,000,000 tokens of each kind cost 10.00 / 13.75 / 1.00 / 24.75 (standard)
\* and 10.00 / 6.05 / 1.50 / 17.55 (pro).
C1_PricingFormula ==
    document_cost # NotYet =>
        LET pages  == FDivInt(Quantity(usage_data, K_documentPages), 1000)
            input  == FDivInt(TokenQuantity(usage_data, K_input), Million)
            output == FDivInt(TokenQuantity(usage_data, K_output), Million)
            ctx    == FDivInt(TokenQuantity(usage_data, K_contextualization), Million)
        IN  /\ document_cost.content_extraction = FMul(pages, Dollars(500))
            /\ SpelledPro(MODE) =>
                 /\ document_cost.field_extraction =
                        FAdd(FMul(input, Dollars(121)), FMul(output, Dollars(484)))
                 /\ document_cost.contextualization = FMul(ctx, Dollars(150))
            /\ ~SpelledPro(MODE) =>
                 /\ document_cost.field_extraction =
                        FAdd(FMul(input, Dollars(275)), FMul(output, Dollars(1100)))
                 /\ document_cost.contextualization = FMul(ctx, Dollars(100))
            /\ FullUsage(usage_data) /\ ~SpelledPro(MODE) =>
                 document_cost = [content_extraction |-> Dollars(1000),
                                  field_extraction   |-> Dollars(1375),
                                  contextualization  |-> Dollars(100),
                                  total              |-> Dollars(2475)]
            /\ FullUsage(usage_data) /\ SpelledPro(MODE) =>
                 document_cost = [content_extraction |-> Dollars(1000),
                                  field_extraction   |-> Dollars(605),
                                  contextualization  |-> Dollars(150),
                                  total              |-> Dollars(1755)]

\* C1 witness: a document costed in mode "PRO" whose usage record lacks
\* documentPages, tokens.output and tokens.contextualization
C1_Witness ==
    /\ MODE = <<"P", "R", "O">>
    /\ document_cost # NotYet
    /\ usage_data = PyDict(<<<<K_tokens, PyDict(<<<<K_input, PyInt(1)>>>>)>>>>)
    /\ document_cost.content_extraction = FZero
    /\ document_cost.field_extraction = FMul(FDivInt(1, Million), Dollars(121))
    /\ document_cost.total = document_cost.field_extraction

Additive(cost) ==
    cost.total = FAdd(FAdd(cost.content_extraction, cost.field_extraction),
                      cost.contextualization)

\* C2: every CostBreakdown the program produces satisfies
\* total == content_extraction + field_extraction + contextualization: the
\* cost of each document and the aggregate of the documents' costs.
C2_TotalIsSumOfParts ==
    /\ document_cost # NotYet => Additive(document_cost)
    /\ \A i \in 1..Len(all_costs) : Additive(all_costs[i].costs)
    /\ aggregate_cost # NotYet => Additive(aggregate_cost)

CostSum(c1, c2) ==
    [content_extraction |-> FAdd(c1.content_extraction, c2.content_extraction),
     field_extraction   |-> FAdd(c1.field_extraction, c2.field_extraction),
     contextualization  |-> FAdd(c1.contextualization, c2.contextualization),
     total              |-> FAdd(c1.total, c2.total)]

IndexPermutations(n) == {p \in [1..n -> 1..n] : \A i, j \in 1..n : p[i] = p[j] => i = j}

Permuted(seq, p) == [i \in 1..Len(seq) |-> seq[p[i]]]

\* C3: the aggregate of a sequence of CostBreakdowns is all-zero for the
\* empty sequence, the component-wise sum of the two for a sequence of two,
\* the same for every permutation of the sequence, and for every split of
\* the sequence in two the component-wise sum of the aggregates of the parts.
C3_AggregateIsOrderFree ==
    aggregate_cost # NotYet =>
        LET costs == CostsOf(all_costs)
            n     == Len(costs)
        IN  /\ n = 0 => aggregate_cost = ZeroCost
            /\ n = 2 => aggregate_cost = CostSum(costs[1], costs[2])
            /\ \A p \in IndexPermutations(n) :
                 aggregate_costs(Permuted(costs, p)) = aggregate_cost
            /\ \A k \in 0..n :
                 aggregate_cost = CostSum(aggregate_costs(SubSeq(costs, 1, k)),
                                          aggregate_costs(SubSeq(costs, k + 1, n)))

(***************************************************************************)
(* The normalizer on its own: a value is normalized, and the plain value   *)
(* it gave is normalized again.                                            *)
(***************************************************************************)
MaxNesting == 2

S_Alice    == <<"A", "l", "i", "c", "e">>
S_alice_sp == <<"a", "l", "i", "c", "e", " ">>
S_Bob      == <<"B", "o", "b">>
S_None     == <<"N", "o", "n", "e">>
S_date     == <<"2", "0", "2", "4", "-", "0", "1", "-", "0", "5">>
S_currency == <<"c", "u", "r", "r", "e", "n", "c", "y">>
K_a        == <<"a">>
K_b        == <<"b">>

TV(tag, key, payload) == PyDict(<<<<K_type, tag>>, <<key, payload>>>>)
TVBare(tag) == PyDict(<<<<K_type, tag>>>>)

TimeStrings ==
    {<<"0", "9", ":", "1", "5", ":", "0", "0">>, <<"0", "9", ":", "1", "5", ":", "3", "0">>, <<"1", "4", ":", "3", "0">>, <<"1", "4", ":", "3", "0", ":", "0", "0">>, <<":", "0", "0">>, <<>>,
     <<"1", "4", ":", "0", "0">>}

WellFormedScalars ==
    {TV(T_string, K_valueString, PyStr(S_Alice)),
     TV(T_string, K_valueString, PyStr(S_None)),
     TV(T_number, K_valueNumber, PyInt(30)),
     TV(T_date, K_valueDate, PyStr(S_date)),
     TV(T_boolean, K_valueBoolean, PyBool(TRUE)),
     TV(T_integer, K_valueInteger, PyInt(7))}
    \cup {TV(T_time, K_valueTime, PyStr(ts)) : ts \in TimeStrings}

RecognisedTags ==
    {T_string, T_number, T_date, T_boolean, T_integer, T_time, T_array, T_object}

\* records without a tag, with a tag outside the recognised ones, or with
\* a recognised tag and no payload under that tag's key
MalformedValues ==
    {PyDict(<<>>),
     PyDict(<<<<K_valueString, PyStr(S_Alice)>>>>),
     TV(PyStr(S_currency), K_valueString, PyStr(S_Alice)),
     TV(PyInt(5), K_valueNumber, PyInt(30)),
     TV(T_string, K_valueNumber, PyInt(30)),
     TV(T_array, K_valueObject, PyDict(<<>>)),
     TV(T_object, K_valueArray, PyList(<<>>))}
    \cup {TVBare(tag) : tag \in RecognisedTags}

\* values that are no dict: the normalizer passes them through
PlainValues == {PyNone, PyStr(S_Alice), PyInt(30), PyBool(FALSE)}

\* payloads of a type the normalizer does not expect
MistypedValues ==
    {TV(T_time, K_valueTime, PyInt(5)),
     TV(T_array, K_valueArray, PyNone),
     TV(T_array, K_valueArray, PyStr(S_Bob)),
     TV(T_object, K_valueObject, PyList(<<>>))}

BaseValues == WellFormedScalars \cup MalformedValues \cup PlainValues \cup MistypedValues

Nest(values) ==
    {TV(T_array, K_valueArray, PyList(<<x>>)) : x \in values}
    \cup {TV(T_object, K_valueObject, PyDict(<<<<K_a, x>>>>)) : x \in values}

RECURSIVE NestedValues(_)
NestedValues(depth) ==
    IF depth = 0 THEN BaseValues
    ELSE BaseValues \cup Nest(NestedValues(depth - 1))

TypedValues ==
    NestedValues(MaxNesting)
    \cup {TV(T_array, K_valueArray, PyList(<<>>)),
          TV(T_object, K_valueObject, PyDict(<<>>)),
          TV(T_array, K_valueArray,
             PyList(<<TV(T_string, K_valueString, PyStr(S_Alice)),
                      TV(T_integer, K_valueInteger, PyInt(7))>>)),
          TV(T_object, K_valueObject,
             PyDict(<<<<K_type, TV(T_string, K_valueString, PyStr(<<"s", "t", "r", "i", "n", "g">>))>>,
                      <<K_valueString, TV(T_string, K_valueString, PyStr(S_Bob))>>>>)),
          TV(T_object, K_valueObject,
             PyDict(<<<<K_a, TV(T_time, K_valueTime, PyStr(<<"0", "9", ":", "1", "5", ":", "0", "0">>))>>,
                      <<K_b, TVBare(T_array)>>>>))}

InitNorm ==
    /\ pc = "normalize"
    /\ details \in TypedValues
    /\ actual = NotYet
    /\ again = NotYet
    /\ IdleCost /\ IdleScore /\ IdleRun /\ IdleLoop

Normalize ==
    /\ pc = "normalize"
    /\ actual' = extract_actual_value(details)
    /\ pc' = "normalized"
    /\ UNCHANGED <<details, again, costVars, scoreVars, runVars, loopVars>>

Renormalize ==
    /\ pc = "normalized"
    /\ ~IsRaised(actual)
    /\ again' = extract_actual_value(actual)
    /\ pc' = "renormalized"
    /\ UNCHANGED <<details, actual, costVars, scoreVars, runVars, loopVars>>

NextNorm == Normalize \/ Renormalize

SpecNorm == InitNorm /\ [][NextNorm]_vars

(***************************************************************************)
(* The scorer on its own: one analysis result is compared with one ground  *)
(* truth.                                                                  *)
(***************************************************************************)
F_name  == <<"n", "a", "m", "e">>
F_age   == <<"a", "g", "e">>
F_extra == <<"e", "x", "t", "r", "a">>
S_Alice_sp == <<" ", "A", "l", "i", "c", "e", " ">>
S_list  == <<"[", "]">>
S_dict  == <<"{", "}">>

\* raw TypedValues a service response may carry for a field
FieldValues ==
    {TV(T_string, K_valueString, PyStr(S_Alice)),
     TV(T_string, K_valueString, PyStr(S_Alice_sp)),
     TV(T_string, K_valueString, PyStr(S_None)),
     TV(T_number, K_valueNumber, PyInt(30)),
     TV(T_time, K_valueTime, PyStr(<<"0", "9", ":", "1", "5", ":", "0", "0">>)),
     TV(T_array, K_valueArray, PyList(<<TV(T_integer, K_valueInteger, PyInt(7))>>)),
     PyInt(30),
     TVBare(T_string), TVBare(T_time), TVBare(T_array), TVBare(T_object),
     PyDict(<<<<K_valueString, PyStr(S_Alice)>>>>),
     TV(PyStr(S_currency), K_valueString, PyStr(S_Alice)),
     TV(T_time, K_valueTime, PyInt(5))}

\* a field map holding "name" and "age", each present or not
FieldMaps ==
    {PyDict(<<>>)}
    \cup {PyDict(<<<<F_name, v>>>>) : v \in FieldValues}
    \cup {PyDict(<<<<F_age, v>>>>) : v \in FieldValues}
    \cup {PyDict(<<<<F_name, v>>, <<F_age, w>>>>) : v \in FieldValues, w \in FieldValues}

ResultWith(fields) ==
    PyDict(<<<<K_result, PyDict(<<<<K_contents, PyList(<<PyDict(<<<<K_fields, fields>>>>)>>)>>>>)>>>>)

\* the service's answers, one of them with a content that has no field map
Results ==
    {ResultWith(fields) : fields \in FieldMaps}
    \cup {PyDict(<<<<K_result, PyDict(<<<<K_contents, PyList(<<PyDict(<<>>)>>)>>>>)>>>>)}

GroundTruths ==
    {PyDict(<<>>),
     PyDict(<<<<F_name, PyStr(S_Alice)>>>>),
     PyDict(<<<<F_name, PyStr(S_alice_sp)>>, <<F_age, PyInt(30)>>>>),
     PyDict(<<<<F_age, PyInt(30)>>, <<F_name, PyStr(S_Bob)>>, <<F_extra, PyStr(S_Bob)>>>>),
     PyDict(<<<<F_name, PyNone>>, <<F_age, PyStr(S_list)>>>>),
     PyDict(<<<<F_extra, PyInt(7)>>, <<F_age, PyStr(S_dict)>>>>)}

InitScore ==
    /\ pc = "compare"
    /\ result \in Results
    /\ test_data \in GroundTruths
    /\ scored = NotYet
    /\ IdleCost /\ IdleNorm /\ IdleRun /\ IdleLoop

Compare ==
    /\ pc = "compare"
    /\ scored' = compare_results_to_testdata(result, test_data)
    /\ pc' = "compared"
    /\ UNCHANGED <<result, test_data, costVars, runVars, normVars, loopVars>>

NextScore == Compare

SpecScore == InitScore /\ [][NextScore]_vars

(***************************************************************************)
(* Claims about the scorer and the normalizer                              *)
(***************************************************************************)
\* the field map the analysis result carries, as <<field, raw value>> pairs
RawFields ==
    LET content == result.d[1][2].d[1][2].l[1]
    IN  IF Len(content.d) = 0 THEN <<>> ELSE content.d[1][2].d

RawNames == {RawFields[i][1] : i \in 1..Len(RawFields)}
TruthNames == {test_data.d[i][1] : i \in 1..Len(test_data.d)}
SheetNames == {scored.field_scores[i][1] : i \in 1..Len(scored.field_scores)}
SheetReturned == pc = "compared" /\ ~IsRaised(scored)

\* the ground truth without the fields the result does not have
TruthOfResultFields ==
    PyDict(SelectSeq(test_data.d, LAMBDA pair : pair[1] \in RawNames))

\* C4: the score sheet returned by compare_results_to_testdata has exactly
\* the fields of the result's field map, one FieldScore per field in that
\* order; a field only in the ground truth is not in the sheet and does
\* not change the accuracy (the sheet and accuracy are those of the ground
\* truth cut down to the result's fields); a field only in the result is
\* scored with an absent expected value.
C4_SheetKeysAreResultFields ==
    SheetReturned =>
        /\ Len(scored.field_scores) = Len(RawFields)
        /\ \A i \in 1..Len(RawFields) : scored.field_scores[i][1] = RawFields[i][1]
        /\ SheetNames = RawNames
        /\ \A f \in TruthNames \ RawNames : f \notin SheetNames
        /\ scored = compare_results_to_testdata(result, TruthOfResultFields)
        /\ \A i \in 1..Len(RawFields) :
              RawFields[i][1] \notin TruthNames
                  => scored.field_scores[i][2].expected = PyNone

C4_Witness ==
    /\ SheetReturned
    /\ TruthNames \ RawNames # {}
    /\ RawNames \ TruthNames # {}
    /\ \E i \in 1..Len(scored.field_scores) :
          /\ scored.field_scores[i][1] \notin TruthNames
          /\ scored.field_scores[i][2].expected = PyNone

\* the part of s between its first and its last non-whitespace character,
\* in lower case
TrimmedLower(s) ==
    LET inked == {i \in 1..Len(s) : s[i] \notin Whitespace}
    IN  IF inked = {} THEN <<>>
        ELSE LET first == CHOOSE i \in inked : \A j \in inked : i <= j
                 last  == CHOOSE i \in inked : \A j \in inked : j <= i
             IN  [i \in 1..(last - first + 1) |-> LowerChar(s[first + i - 1])]

\* C5: every scored field has status pass exactly when the string forms of
\* its expected value and of its normalized actual value are equal after
\* trimming and lower-casing, and fail otherwise; the recorded expected and
\* actual are the original values; "alice " matches "Alice"; a field with
\* no ground truth passes when its actual value is absent and fails when
\* it is "Alice".
C5_ComparisonRule ==
    SheetReturned =>
        \A i \in 1..Len(scored.field_scores) :
            LET score    == scored.field_scores[i][2]
                expected == PyGet(test_data, RawFields[i][1], PyNone)
                value    == extract_actual_value(RawFields[i][2])
            IN  /\ score.status \in {"pass", "fail"}
                /\ score.status = "pass"
                      <=> TrimmedLower(Str(expected)) = TrimmedLower(Str(value))
                /\ score.expected = expected
                /\ score.actual = value
                /\ (expected = PyStr(S_alice_sp) /\ value = PyStr(S_Alice))
                      => score.status = "pass"
                /\ (RawFields[i][1] \notin TruthNames /\ value = PyNone)
                      => score.status = "pass"
                /\ (RawFields[i][1] \notin TruthNames /\ value = PyStr(S_Alice))
                      => score.status = "fail"

C5_Witness ==
    /\ SheetReturned
    /\ \E i \in 1..Len(scored.field_scores) :
          /\ scored.field_scores[i][2].expected = PyStr(S_alice_sp)
          /\ scored.field_scores[i][2].actual = PyStr(S_Alice)
          /\ scored.field_scores[i][2].status = "pass"
    /\ \E i \in 1..Len(scored.field_scores) :
          /\ scored.field_scores[i][2].expected = PyInt(30)
          /\ scored.field_scores[i][2].status = "fail"

\* the payload key of a recognised tag
PayloadKey(tag) ==
    CASE tag = T_string  -> K_valueString
      [] tag = T_number  -> K_valueNumber
      [] tag = T_date    -> K_valueDate
      [] tag = T_boolean -> K_valueBoolean
      [] tag = T_integer -> K_valueInteger
      [] tag = T_time    -> K_valueTime
      [] tag = T_array   -> K_valueArray
      [] tag = T_object  -> K_valueObject

TagOf(v) == PyGet(v, K_type, PyNone)

\* a TypedValue: a record with a recognised tag and that tag's payload,
\* TypedValues all the way down
RECURSIVE IsTypedValue(_)
IsTypedValue(v) ==
    /\ v.t = "dict"
    /\ TagOf(v) \in RecognisedTags
    /\ PyHas(v, PayloadKey(TagOf(v)))
    /\ LET payload == PyGet(v, PayloadKey(TagOf(v)), PyNone)
       IN  CASE TagOf(v) \in {T_string, T_date, T_time} -> payload.t = "str"
             [] TagOf(v) \in {T_number, T_integer} -> payload.t = "int"
             [] TagOf(v) = T_boolean -> payload.t = "bool"
             [] TagOf(v) = T_array ->
                    /\ payload.t = "list"
                    /\ \A i \in 1..Len(payload.l) : IsTypedValue(payload.l[i])
             [] TagOf(v) = T_object ->
                    /\ payload.t = "dict"
                    /\ \A i \in 1..Len(payload.d) : IsTypedValue(payload.d[i][2])

\* C9: for every TypedValue of every tag, normalizing the normalized value
\* again returns it unchanged, also when it is a mapping that came from an
\* object or a sequence that came from an array.
C9_NormalizerIdempotent ==
    (pc = "renormalized" /\ IsTypedValue(details)) => again = actual

\* a record without a recognised tag, or without the payload of its tag
Malformed(v) ==
    /\ v.t = "dict"
    /\ \/ TagOf(v) \notin RecognisedTags
       \/ ~PyHas(v, PayloadKey(TagOf(v)))

MalformedFields == {i \in 1..Len(RawFields) : Malformed(RawFields[i][2])}

\* C10 as stated: every malformed record, array and object with a missing
\* payload included, normalizes to the absent value without raising, and
\* the field's FieldScore records that absent actual value.
C10_MalformedIsAbsent ==
    pc = "compared" =>
        \A i \in MalformedFields :
            /\ extract_actual_value(RawFields[i][2]) = PyNone
            /\ ~IsRaised(scored) => scored.field_scores[i][2].actual = PyNone

\* what a malformed record normalizes to
Degraded(v) ==
    IF TagOf(v) = T_array THEN PyList(<<>>)
    ELSE IF TagOf(v) = T_object THEN PyDict(<<>>)
    ELSE PyNone

\* C10, amended: a malformed record never raises; it normalizes to the
\* absent value when its tag is missing or unrecognised or is a scalar or
\* time tag without payload, to the empty sequence when it is an array
\* without payload and to the empty mapping when it is an object without
\* payload; a result whose fields are all malformed is scored without an
\* exception, and every returned sheet records that value as the field's
\* actual, with status pass or fail.
C10_MalformedNeverFatal ==
    pc = "compared" =>
        /\ \A i \in MalformedFields :
              /\ extract_actual_value(RawFields[i][2]) = Degraded(RawFields[i][2])
              /\ ~IsRaised(scored) =>
                    /\ scored.field_scores[i][1] = RawFields[i][1]
                    /\ scored.field_scores[i][2].actual = Degraded(RawFields[i][2])
                    /\ scored.field_scores[i][2].status \in {"pass", "fail"}
        /\ MalformedFields = 1..Len(RawFields) => ~IsRaised(scored)

C10_Witness ==
    /\ SheetReturned
    /\ \E i \in MalformedFields, j \in MalformedFields :
          /\ TagOf(RawFields[i][2]) = T_array
          /\ scored.field_scores[i][2].actual = PyList(<<>>)
          /\ TagOf(RawFields[j][2]) \notin RecognisedTags
          /\ scored.field_scores[j][2].actual = PyNone

(***************************************************************************)
(* The scoring loop of compare_results_to_testdata by its counters: each   *)
(* field of the result either matches its expected value or does not, and  *)
(* the accuracy is computed when the fields are exhausted.                 *)
(***************************************************************************)
MaxFieldsScored == 160

InitAcc ==
    /\ pc = "scoring"
    /\ success = 0
    /\ total = 0
    /\ accuracy = NotYet
    /\ IdleCost /\ IdleScore /\ IdleNorm /\ IdleRun

\* a field whose strings match: total += 1, success += 1
ScorePass ==
    /\ pc = "scoring"
    /\ total < MaxFieldsScored
    /\ total' = total + 1
    /\ success' = success + 1
    /\ UNCHANGED <<pc, accuracy, costVars, scoreVars, normVars, runVars>>

\* a field whose strings differ: total += 1
ScoreFail ==
    /\ pc = "scoring"
    /\ total < MaxFieldsScored
    /\ total' = total + 1
    /\ UNCHANGED <<pc, success, accuracy, costVars, scoreVars, normVars, runVars>>

\* the fields are exhausted
ReturnAccuracy ==
    /\ pc = "scoring"
    /\ accuracy' = Accuracy(success, total)
    /\ pc' = "returned"
    /\ UNCHANGED <<success, total, costVars, scoreVars, normVars, runVars>>

NextAcc == ScorePass \/ ScoreFail \/ ReturnAccuracy

SpecAcc == InitAcc /\ [][NextAcc]_vars

\* 100 x passes / fields in hundredths, rounded to the nearest; a tie may
\* go up or to the even neighbour
RoundedHundredths(passes, fields) ==
    LET q == (10000 * passes) \div fields
        r == (10000 * passes) % fields
    IN  IF 2 * r < fields THEN {q}
        ELSE IF 2 * r > fields THEN {q + 1}
        ELSE IF q % 2 = 0 THEN {q, q + 1}
        ELSE {q + 1}

\* C6: the accuracy returned is 100 x passes / totalFieldsScored rounded to
\* 2 decimals, lies in 0..100, is 100 exactly when at least one field was
\* scored and all passed, and is 0 when no field was scored.
C6_AccuracyIsRoundedPercent ==
    pc = "returned" =>
        /\ total = 0 => accuracy = FZero
        /\ total > 0 =>
              accuracy \in {Dollars(h) : h \in RoundedHundredths(success, total)}
        /\ ~FLess(accuracy, FZero) /\ ~FLess(Hundred, accuracy)
        /\ accuracy = Hundred <=> (total > 0 /\ success = total)

(***************************************************************************)
(* Evaluation report                                                       *)
(***************************************************************************)
SheetPasses(fields) ==
    Cardinality({i \in 1..Len(fields) : fields[i][2].status = "pass"})

RECURSIVE SumOver(_, _)
SumOver(seq, i) == IF i > Len(seq) THEN 0 ELSE seq[i] + SumOver(seq, i + 1)

\* (part / total * 100) if total > 0 else 0
CostShare(part, whole) ==
    IF FLess(FZero, whole) THEN FMul(FDiv(part, whole), Hundred) ELSE FZero

AccuracySections ==
    <<"Document-Level Results", "Field-Level Performance", "Detailed Results by Document">>

\* the JSON report and what the markdown report is made of
generate_evaluation_report(results, performance, cost_entries) ==
    LET total_docs == IF Len(results) > 0 THEN Len(results) ELSE Len(cost_entries)
        total_fields_tested ==
            SumOver([i \in 1..Len(results) |-> Len(results[i].fields)], 1)
        total_field_passes ==
            SumOver([i \in 1..Len(results) |-> SheetPasses(results[i].fields)], 1)
        overall_accuracy ==
            IF total_fields_tested > 0
            THEN PyRound2(FMul(FDivInt(total_field_passes, total_fields_tested), Hundred))
            ELSE FZero
        aggregate ==
            IF Len(cost_entries) > 0 THEN aggregate_costs(CostsOf(cost_entries))
            ELSE ZeroCost
    IN  [summary |->
            [documents_analyzed |-> total_docs,
             total_fields_tested |-> total_fields_tested,
             overall_accuracy |-> overall_accuracy,
             field_passes |-> total_field_passes,
             field_failures |-> total_fields_tested - total_field_passes],
         costs |-> [aggregate |-> aggregate, per_document |-> cost_entries, mode |-> MODE],
         results |-> [document_level |-> results, field_performance |-> performance],
         markdown |->
            [sections |->
                <<"Summary", "Cost Analysis", "Per-Document Cost Breakdown", "Pricing Details">>
                \o (IF Len(results) > 0 THEN AccuracySections ELSE <<>>)
                \o <<"Analyzer Configuration", "Files Generated">>,
             cost_shares |->
                [content_extraction |-> CostShare(aggregate.content_extraction, aggregate.total),
                 field_extraction |-> CostShare(aggregate.field_extraction, aggregate.total),
                 contextualization |-> CostShare(aggregate.contextualization, aggregate.total)],
             cost_rows |-> [i \in 1..Len(cost_entries) |-> cost_entries[i].document],
             pro_pricing |-> IsPro(MODE),
             files |-> <<"evaluation_report.md", "evaluation_report.json">>
                       \o [i \in 1..Len(cost_entries) |-> cost_entries[i].document]]]

(***************************************************************************)
(* The run: the __main__ block                                             *)
(***************************************************************************)
MaxPolls == 2

RunModes == {<<"s", "t", "a", "n", "d", "a", "r", "d">>, <<"P", "r", "o">>}

RunResults ==
    {PyDict(<<<<K_result, PyDict(<<<<K_contents, PyList(<<PyDict(<<<<K_fields,
                PyDict(<<<<F_name, TV(T_string, K_valueString, PyStr(S_Alice))>>,
                         <<F_age, TV(T_number, K_valueNumber, PyInt(30))>>>>)>>>>)>>)>>>>)>>,
              <<K_usage, PyDict(<<<<K_documentPages, PyInt(2000)>>,
                                  <<K_tokens, PyDict(<<<<K_input, PyInt(Million)>>,
                                                       <<K_output, PyInt(Million)>>>>)>>>>)>>>>),
     PyDict(<<<<K_result, PyDict(<<<<K_contents, PyList(<<PyDict(<<<<K_fields,
                PyDict(<<<<F_name, TV(T_string, K_valueString, PyStr(S_Bob))>>>>)>>>>)>>)>>>>)>>,
              <<K_usage, PyDict(<<<<K_documentPages, PyInt(1)>>,
                                  <<K_tokens, PyDict(<<<<K_input, PyInt(2)>>>>)>>>>)>>>>),
     PyDict(<<<<K_result, PyDict(<<<<K_contents, PyList(<<PyDict(<<<<K_fields,
                PyDict(<<<<F_name, TV(T_time, K_valueTime, PyInt(5))>>>>)>>>>)>>)>>>>)>>>>)}

\* what get_test_data_file and load_json_file give for a document
TestFiles ==
    {NoTestFile,
     PyDict(<<<<F_name, PyStr(S_alice_sp)>>, <<F_age, PyInt(30)>>>>)}

Init ==
    /\ pc = "start"
    /\ MODE \in RunModes
    /\ input_files \in {SubSeq(DocNames, 1, n) : n \in 0..MaxDocs}
    /\ polls = 0
    /\ result = NotYet
    /\ usage_data = NotYet
    /\ document_cost = NotYet
    /\ test_data = NotYet
    /\ scored = NotYet
    /\ all_costs = <<>>
    /\ all_results = <<>>
    /\ field_performance = NotYet
    /\ aggregate_cost = NotYet
    /\ report = NotYet
    /\ run_files = {}
    /\ run_folder = "none"
    /\ IdleNorm /\ IdleLoop

docVars == <<result, usage_data, document_cost, test_data, scored, all_costs, all_results>>
endVars == <<field_performance, aggregate_cost, report>>

\* validate_environment, delete_analyzer, create_analyzer, the run folder
\* and get_input_files
Start ==
    /\ pc = "start"
    /\ \E outcome \in {"no environment", "not created", "created"} :
          /\ pc' = CASE outcome = "no environment" -> "exit 1"
                  [] outcome = "not created" -> "crashed"
                  [] input_files = <<>> -> "exit 0"
                  [] OTHER -> "submit"
          /\ run_folder' = IF outcome = "created" THEN "created" ELSE "none"
    /\ UNCHANGED <<MODE, input_files, polls, run_files, docVars, endVars, normVars, loopVars>>

\* analyze_file_binary: the service accepts the document (202) or not
Submit ==
    /\ pc = "submit"
    /\ \E accepted \in BOOLEAN : pc' = IF accepted THEN "poll" ELSE "crashed"
    /\ polls' = 0
    /\ UNCHANGED <<MODE, input_files, run_files, run_folder, docVars, endVars, normVars,
                   loopVars>>

\* poll_result: the operation is still running; sleep and ask again
PollWaiting ==
    /\ pc = "poll"
    /\ polls < MaxPolls
    /\ polls' = polls + 1
    /\ UNCHANGED <<pc, MODE, input_files, run_files, run_folder, docVars, endVars, normVars,
                   loopVars>>

\* poll_result: status "Failed" taken as the end of this document only, the
\* loop going on with the next one
PollFailedSkips ==
    /\ pc = "poll"
    /\ pc' = IF Len(all_costs) + 1 < Len(input_files) THEN "submit" ELSE "finish"
    /\ UNCHANGED <<MODE, input_files, polls, run_files, run_folder, docVars, endVars,
                   normVars, loopVars>>

\* poll_result: status "Failed"
PollFailed ==
    /\ pc = "poll"
    /\ pc' = "crashed"
    /\ UNCHANGED <<MODE, input_files, polls, run_files, run_folder, docVars, endVars,
                   normVars, loopVars>>

\* poll_result: status "Succeeded", and the rest of the loop body
PollSucceeded ==
    /\ pc = "poll"
    /\ \E data \in RunResults, test_file \in TestFiles :
          LET n     == Len(all_costs) + 1
              usage == PyGet(data, K_usage, PyDict(<<>>))
              entry == CostEntry(n, usage, MODE)
              sheet == IF test_file = NoTestFile THEN NoTestFile
                       ELSE compare_results_to_testdata(data, test_file)
          IN  /\ result' = data
              /\ usage_data' = usage
              /\ document_cost' = entry.costs
              /\ all_costs' = Append(all_costs, entry)
              /\ run_files' = run_files \cup {DocNames[n]}
              /\ test_data' = test_file
              /\ scored' = sheet
              /\ all_results' =
                    IF test_file = NoTestFile \/ IsRaised(sheet) THEN all_results
                    ELSE Append(all_results,
                                [doc |-> DocNames[n], fields |-> sheet.field_scores])
              /\ pc' = IF IsRaised(sheet) THEN "crashed"
                       ELSE IF n < Len(input_files) THEN "submit"
                       ELSE "finish"
    /\ polls' = 0
    /\ UNCHANGED <<MODE, input_files, run_folder, endVars, normVars, loopVars>>

\* after the loop, with "if all_results:" alone: no report for a run in
\* which no document had ground truth
FinishScoredOnly ==
    /\ pc = "finish"
    /\ pc' = "done"
    /\ IF Len(all_results) > 0
       THEN /\ field_performance' = aggregate_field_performance(all_results)
            /\ aggregate_cost' = aggregate_costs(CostsOf(all_costs))
            /\ report' = generate_evaluation_report(
                             all_results, aggregate_field_performance(all_results), all_costs)
            /\ run_files' = run_files \cup {"evaluation_report.md", "evaluation_report.json"}
       ELSE UNCHANGED <<endVars, run_files>>
    /\ UNCHANGED <<MODE, input_files, polls, run_folder, docVars, normVars, loopVars>>

\* after the loop: aggregate and write the reports
Finish ==
    /\ pc = "finish"
    /\ pc' = "done"
    /\ IF Len(all_results) > 0
       THEN /\ field_performance' = aggregate_field_performance(all_results)
            /\ aggregate_cost' = aggregate_costs(CostsOf(all_costs))
            /\ report' = generate_evaluation_report(
                             all_results, aggregate_field_performance(all_results), all_costs)
            /\ run_files' = run_files \cup {"evaluation_report.md", "evaluation_report.json"}
       ELSE IF Len(all_costs) > 0
       THEN /\ aggregate_cost' = aggregate_costs(CostsOf(all_costs))
            /\ report' = generate_evaluation_report(<<>>, <<>>, all_costs)
            /\ run_files' = run_files \cup {"evaluation_report.md", "evaluation_report.json"}
            /\ UNCHANGED field_performance
       ELSE UNCHANGED <<endVars, run_files>>
    /\ UNCHANGED <<MODE, input_files, polls, run_folder, docVars, normVars, loopVars>>

Next == Start \/ Submit \/ PollWaiting \/ PollFailed \/ PollSucceeded \/ Finish

Spec == Init /\ [][Next]_vars

(***************************************************************************)
(* Claims about the run                                                    *)
(***************************************************************************)
SheetsWith(field, status) ==
    {i \in 1..Len(all_results) :
        \E j \in 1..Len(all_results[i].fields) :
            /\ all_results[i].fields[j][1] = field
            /\ all_results[i].fields[j][2].status = status}

SheetsHolding(field) ==
    {i \in 1..Len(all_results) :
        \E j \in 1..Len(all_results[i].fields) : all_results[i].fields[j][1] = field}

FieldsInSheets ==
    UNION {{all_results[i].fields[j][1] : j \in 1..Len(all_results[i].fields)} :
             i \in 1..Len(all_results)}

\* a dict as the set of its items: equal dicts have equal item sets
Items(pairs) == {pairs[i] : i \in 1..Len(pairs)}

\* the run came through its "if all_results:" branch
Aggregated == pc = "done" /\ Len(all_results) > 0

\* C7: aggregate_field_performance returns a mapping whose keys are the
\* fields occurring in at least one sheet, each once; a field's passes are
\* the sheets where it passed and its fails the sheets where it failed, so
\* they add up to the sheets holding the field; every permutation of the
\* sheets gives the same mapping; a field passing in doc1 and failing in
\* doc2 aggregates to passes 1, fails 1.
C7_FieldPerformanceCounts ==
    Aggregated =>
        /\ {field_performance[i][1] : i \in 1..Len(field_performance)} = FieldsInSheets
        /\ Len(field_performance) = Cardinality(FieldsInSheets)
        /\ \A i \in 1..Len(field_performance) :
              LET field == field_performance[i][1]
                  data  == field_performance[i][2]
              IN  /\ data.passes = Cardinality(SheetsWith(field, "pass"))
                  /\ data.fails = Cardinality(SheetsWith(field, "fail"))
                  /\ data.passes + data.fails = Cardinality(SheetsHolding(field))
        /\ \A p \in IndexPermutations(Len(all_results)) :
              Items(aggregate_field_performance(Permuted(all_results, p)))
                  = Items(field_performance)
        /\ (Len(all_results) = 2 /\ SheetsWith(F_name, "pass") = {1}
               /\ SheetsWith(F_name, "fail") = {2})
              => <<F_name, [passes |-> 1, fails |-> 0 + 1]>> \in Items(field_performance)

C7_Witness ==
    /\ Aggregated
    /\ Len(all_results) = 2
    /\ SheetsWith(F_name, "pass") = {1}
    /\ SheetsWith(F_name, "fail") = {2}
    /\ SheetsHolding(F_age) = {1}
    /\ <<F_name, [passes |-> 1, fails |-> 1]>> \in Items(field_performance)

\* C8: in every report summary.documents_analyzed is the number of
\* documents with a cost entry, whether all, some or none of them had
\* ground truth.
C8_DocumentsAnalyzed ==
    report # NotYet =>
        /\ report.summary.documents_analyzed = Len(all_costs)
        /\ report.summary.documents_analyzed = Len(report.costs.per_document)

(***************************************************************************)
(* Claims about time values                                                *)
(***************************************************************************)
DigitAt(s, i) == \E d \in 1..Len(Digits) : Digits[d] = s[i]

\* HH:MM, a time without a seconds component
IsHourMinute(s) ==
    /\ Len(s) = 5
    /\ s[3] = ":"
    /\ \A i \in {1, 2, 4, 5} : DigitAt(s, i)

\* HH:MM:SS
IsHourMinuteSecond(s) ==
    /\ Len(s) = 8
    /\ s[3] = ":" /\ s[6] = ":"
    /\ \A i \in {1, 2, 4, 5, 7, 8} : DigitAt(s, i)

TimeTagged == details.t = "dict" /\ TagOf(details) = T_time

\* C11: for a time-tagged value the normalizer turns HH:MM:00 into HH:MM
\* ("09:15:00" gives "09:15", "14:30:00" gives "14:30"), leaves HH:MM:SS
\* with other seconds unchanged ("09:15:30" stays), leaves a string without
\* seconds component such as HH:MM unchanged, and returns an empty or
\* absent payload as it is.
C11_TimeSuffix ==
    (pc = "normalized" /\ TimeTagged) =>
        LET v == PyGet(details, K_valueTime, PyNone)
        IN  /\ ~PyHas(details, K_valueTime) => actual = PyNone
            /\ v = PyStr(<<>>) => actual = v
            /\ (v.t = "str" /\ IsHourMinuteSecond(v.s)) =>
                  actual = IF SubSeq(v.s, 6, 8) = <<":", "0", "0">>
                           THEN PyStr(SubSeq(v.s, 1, 5))
                           ELSE v
            /\ (v.t = "str" /\ IsHourMinute(v.s)) => actual = v

(***************************************************************************)
(* Claims about the run loop and the reports                               *)
(***************************************************************************)
ReportFiles == {"evaluation_report.md", "evaluation_report.json"}

LoopEnded == pc \in {"finish", "done"}

Elements(seq) == {seq[i] : i \in 1..Len(seq)}

SheetDocs == [i \in 1..Len(all_results) |-> all_results[i].doc]
CostDocs == [i \in 1..Len(all_costs) |-> all_costs[i].document]

\* one pass through the loop body that did not raise
DocumentProcessed ==
    pc = "poll" /\ Len(all_costs') = Len(all_costs) + 1 /\ pc' # "crashed"

\* the pass appended the document's cost entry, and its score sheet exactly
\* when it has a ground-truth file
EntryAndSheet ==
    LET n == Len(all_costs')
    IN  /\ SubSeq(all_costs', 1, n - 1) = all_costs
        /\ all_costs'[n].document = input_files[n]
        /\ IF test_data' = NoTestFile THEN all_results' = all_results
           ELSE /\ Len(all_results') = Len(all_results) + 1
                /\ SubSeq(all_results', 1, Len(all_results)) = all_results
                /\ all_results'[Len(all_results')].doc = input_files[n]

AfterTheLoop ==
    LoopEnded =>
        /\ CostDocs = input_files
        /\ SheetDocs = SelectSeq(CostDocs, LAMBDA d : d \in Elements(SheetDocs))
        /\ Len(SheetDocs) = Cardinality(Elements(SheetDocs))

ReportWritten ==
    (pc = "done" /\ Len(all_costs) > 0) =>
        /\ report # NotYet
        /\ ReportFiles \subseteq run_files
        /\ {"Cost Analysis", "Per-Document Cost Breakdown"}
              \subseteq Elements(report.markdown.sections)
        /\ report.markdown.cost_rows = CostDocs
        /\ report.costs.per_document = all_costs
        /\ Len(all_results) = 0
              => Elements(AccuracySections) \cap Elements(report.markdown.sections) = {}

\* C12: in a run whose analyses all succeed, after the loop every analysed
\* document has exactly one cost entry, in input order, with or without
\* ground truth, and a score sheet exactly when it has a ground-truth
\* file, so the sheets are a subsequence of the cost entries; a report is
\* generated whenever at least one document was analysed, and when no
\* document had ground truth it has the cost table and the per-document
\* cost table and none of the three accuracy sections.
C12_LoopAndReport ==
    /\ [](AfterTheLoop /\ ReportWritten)
    /\ [][DocumentProcessed => EntryAndSheet]_vars

C12_Witness ==
    /\ pc = "done"
    /\ Len(all_costs) = 2
    /\ Len(all_results) = 0
    /\ report # NotYet
    /\ "Cost Analysis" \in Elements(report.markdown.sections)
    /\ "Field-Level Performance" \notin Elements(report.markdown.sections)

InTheLoop == pc \in {"submit", "poll"}

\* the raw result files of the documents processed so far
RawResultFiles == {all_costs[i].document : i \in 1..Len(all_costs)}

\* documents are taken one at a time in input order, each saved in the pass
\* that costs it, and no report exists before the loop has ended
OneAtATime ==
    /\ InTheLoop =>
          /\ run_folder = "created"
          /\ Len(all_costs) < Len(input_files)
          /\ CostDocs = SubSeq(input_files, 1, Len(all_costs))
          /\ run_files = RawResultFiles
    /\ (report # NotYet \/ ReportFiles \cap run_files # {}) =>
          /\ pc = "done"
          /\ CostDocs = input_files
          /\ RawResultFiles \subseteq run_files

\* an aborted run has no report; one aborted in the loop has its run folder
\* and the raw results of the documents before the failing one
Aborted ==
    pc = "crashed" =>
        /\ report = NotYet
        /\ ReportFiles \cap run_files = {}
        /\ run_folder = "created" => run_files = RawResultFiles

\* a rejected submission or a Failed poll: the step leaves the document
\* without a cost entry
DocumentGivenUp == InTheLoop /\ pc' # pc /\ all_costs' = all_costs /\ pc' # "poll"

\* the loop takes up a document only by submitting it, and leaves polling
\* only with a result (Succeeded) or by aborting (Failed)
LoopSteps ==
    /\ DocumentGivenUp =>
          /\ pc' = "crashed"
          /\ run_files' = run_files
          /\ run_folder' = "created"
    /\ (pc = "poll" /\ pc' # "poll" /\ pc' # "crashed") =>
          Len(all_costs') = Len(all_costs) + 1
    /\ pc = "crashed" => pc' = "crashed"
    /\ Len(all_costs') \in {Len(all_costs), Len(all_costs) + 1}

\* while the service reports neither Succeeded nor Failed the poller can
\* ask again, however often it has asked (up to the model's bound)
NoTimeout == (pc = "poll" /\ polls < MaxPolls) => ENABLED PollWaiting

\* C13: documents are processed one at a time in input order and the
\* reports are written only after the last one; when a submission is not
\* accepted or polling returns Failed the run aborts at that document and
\* neither report is ever written, while the run folder and the raw result
\* files of the documents before it exist; polling has no timeout and ends
\* only with Succeeded or Failed.
C13_AllOrNothing ==
    /\ [](OneAtATime /\ Aborted /\ NoTimeout)
    /\ [][LoopSteps]_vars

C13_Witness ==
    /\ pc = "crashed"
    /\ polls = MaxPolls
    /\ Len(all_costs) = 1
    /\ Len(input_files) > 1
    /\ run_folder = "created"
    /\ run_files = {DocNames[1]}
    /\ report = NotYet

====
